---- MODULE Spec2Model ----
(***************************************************************************)
(* Model of src/rotate.cpp: the scripted flight                            *)
(*   arm -> takeoff -> wait altitude > 1 m -> offboard rotate+climb to 5 m *)
(*   -> hover 5 s -> offboard stop -> land.                                *)
(*                                                                         *)
(* main() is one thread; pc is its position.  Every call on the MAVSDK     *)
(* objects (the vehicle link) is an input of the step that makes it: the   *)
(* result code or the telemetry reading is drawn from a small set.  The    *)
(* position callback registered at line 57 runs on a library thread and is *)
(* a separate action.                                                      *)
(*                                                                         *)
(* Altitudes are in decimetres (0.1 m), speeds in 0.1 m/s, yaw in deg/s;   *)
(* the float comparisons of lines 89 and 149 are comparisons with 10 and   *)
(* 50 on that grid (no reading of the grid rounds across 1.0f or 5.0f).    *)
(***************************************************************************)
EXTENDS Integers, Sequences, FiniteSets, TLC

VARIABLES
    argc,       \* argument count main() was started with (argv[0] included)
    altSource,  \* how the link produces altitude readings: "free" | "ramp"
    pc,         \* position of main()
    status,     \* exit status of the process, NoStatus while it runs
    calls,      \* command-style calls made on the vehicle link, with results
    err,        \* lines written to std::cerr
    lastOut,    \* last line written to std::cout
    subscribed, \* position callback registered (line 57)
    health,     \* last value read from telemetry.health_all_ok()
    lastAlt,    \* last relative altitude read by main (pos / alt locals)
    posReads,   \* number of telemetry.position() reads made by main
    inAir,      \* last value read from telemetry.in_air()
    targetAt    \* Len(calls) when the rotate+climb loop broke, else -1

vars == <<argc, altSource, pc, status, calls, err, lastOut, subscribed,
          health, lastAlt, posReads, inAir, targetAt>>

\* the state of the sequencer proper: everything but std::cout
seqVars == <<argc, altSource, pc, status, calls, err, subscribed,
             health, lastAlt, posReads, inAir, targetAt>>

----------------------------------------------------------------------------
\* Bounds of the model

MaxArgc == 4
MaxPosReads == 20

\* altitude readings (dm) an unconstrained link may return
AltReadings == {0, 9, 10, 11, 17, 49, 50, 51}

----------------------------------------------------------------------------
\* Program constants

ClimbThresholdMut == 10 + 7
ClimbThreshold == 10          \* 1.0f, line 89
climb_speed == 5              \* 0.5f m/s, line 123
yaw_rate == 45                \* 45.0f deg/s, line 124
target_altitude == 50         \* 5.0f m, line 125

NoStatus == -1

\* Offboard::VelocityBodyYawspeed as <<forward, right, down, yawspeed>>
stay == <<0, 0, 0, 0>>
rotate_climb == <<0, 0, 0 - climb_speed, yaw_rate>>
hover == <<0, 0, 0, 0>>

NoArg == <<>>

\* result codes the link may report
ConnectionResults == {"Success", "ConnectionError"}
DiscoveryResults == {"Success", "Timeout"}
TelemetryResults == {"Success", "Timeout"}
ActionResults == {"Success", "CommandDenied", "Timeout"}
OffboardResults == {"Success", "NoSetpointSet", "Timeout"}

\* altitude of the n-th position read (n counted from 0) of a link whose
\* altitude grows by 0.3 m per read starting at 0
RampAlt(n) == 3 * n

\* the readings telemetry.position() may return at this point
PositionReadings ==
    IF altSource = "ramp" THEN {RampAlt(posReads)} ELSE AltReadings

Min(a, b) == IF a < b THEN a ELSE b

----------------------------------------------------------------------------
\* Helpers shared by the steps of main()

Call(op, arg, res) == calls' = Append(calls, [op |-> op, arg |-> arg, res |-> res])

\* std::cerr << msg; return 1;
Fail(msg) ==
    /\ err' = Append(err, msg)
    /\ status' = 1
    /\ pc' = "exit"

ReadPosition(a) ==
    /\ lastAlt' = a
    /\ posReads' = Min(posReads + 1, MaxPosReads)

Init ==
    /\ argc \in 1..MaxArgc
    /\ altSource \in {"free", "ramp"}
    /\ pc = "start"
    /\ status = NoStatus
    /\ calls = <<>>
    /\ err = <<>>
    /\ lastOut = <<>>
    /\ subscribed = FALSE
    /\ health = "unread"
    /\ lastAlt = -1
    /\ posReads = 0
    /\ inAir = "unread"
    /\ targetAt = -1

----------------------------------------------------------------------------
\* Steps of main()

\* lines 26-29: argument check; line 32 constructs Mavsdk (no link traffic)
CheckArgsMut ==
    /\ pc = "start"
    /\ IF argc < 2
         THEN Fail("Usage")
         ELSE /\ pc' = "connect"
              /\ UNCHANGED <<err, status>>
    /\ UNCHANGED <<argc, altSource, calls, lastOut, subscribed, health,
                   lastAlt, posReads, inAir, targetAt>>

CheckArgs ==
    /\ pc = "start"
    /\ IF argc # 2
         THEN Fail("Usage")
         ELSE /\ pc' = "connect"
              /\ UNCHANGED <<err, status>>
    /\ UNCHANGED <<argc, altSource, calls, lastOut, subscribed, health,
                   lastAlt, posReads, inAir, targetAt>>

\* lines 33-38
AddConnection ==
    /\ pc = "connect"
    /\ \E r \in ConnectionResults :
         /\ Call("add_any_connection", NoArg, r)
         /\ IF r # "Success"
              THEN Fail("Connection failed")
              ELSE /\ pc' = "discover"
                   /\ UNCHANGED <<err, status>>
    /\ UNCHANGED <<argc, altSource, lastOut, subscribed, health,
                   lastAlt, posReads, inAir, targetAt>>

\* lines 40-48: first_autopilot(5.0) returns an empty optional on timeout
FirstAutopilot ==
    /\ pc = "discover"
    /\ \E r \in DiscoveryResults :
         /\ Call("first_autopilot", NoArg, r)
         /\ IF r # "Success"
              THEN Fail("Timed out waiting for system")
              ELSE /\ pc' = "set_rate"
                   /\ UNCHANGED <<err, status>>
    /\ UNCHANGED <<argc, altSource, lastOut, subscribed, health,
                   lastAlt, posReads, inAir, targetAt>>

\* lines 50-55
\* a rate request whose result is not checked
SetRatePositionMut ==
    /\ pc = "set_rate"
    /\ \E r \in TelemetryResults :
         /\ Call("set_rate_position", NoArg, r)
         /\ pc' = "subscribe"
         /\ UNCHANGED <<err, status>>
    /\ UNCHANGED <<argc, altSource, lastOut, subscribed, health,
                   lastAlt, posReads, inAir, targetAt>>

SetRatePosition ==
    /\ pc = "set_rate"
    /\ \E r \in TelemetryResults :
         /\ Call("set_rate_position", NoArg, r)
         /\ IF r # "Success"
              THEN Fail("Setting rate failed")
              ELSE /\ pc' = "subscribe"
                   /\ UNCHANGED <<err, status>>
    /\ UNCHANGED <<argc, altSource, lastOut, subscribed, health,
                   lastAlt, posReads, inAir, targetAt>>

\* lines 57-59: register the callback (returns nothing to check)
SubscribePosition ==
    /\ pc = "subscribe"
    /\ subscribed' = TRUE
    /\ pc' = "health"
    /\ UNCHANGED <<argc, altSource, status, calls, err, lastOut, health,
                   lastAlt, posReads, inAir, targetAt>>

\* lines 61-65: one evaluation of the health loop condition
HealthPollMut(ok) ==
    /\ pc = "health"
    /\ health' = IF ok THEN "ok" ELSE "not_ok"
    /\ IF ok
         THEN /\ lastOut' = <<"Vehicle is getting ready to arm...">>
              /\ pc' = "health"
         ELSE /\ pc' = "arm"
              /\ UNCHANGED lastOut
    /\ UNCHANGED <<argc, altSource, status, calls, err, subscribed,
                   lastAlt, posReads, inAir, targetAt>>

\* a health wait that gives up on a not-OK reading
HealthPollTimeoutMut(ok) ==
    /\ pc = "health"
    /\ health' = IF ok THEN "ok" ELSE "not_ok"
    /\ IF ~ok
         THEN /\ Fail("Health check timed out")
              /\ UNCHANGED lastOut
         ELSE /\ pc' = "arm"
              /\ UNCHANGED <<lastOut, err, status>>
    /\ UNCHANGED <<argc, altSource, calls, subscribed,
                   lastAlt, posReads, inAir, targetAt>>

HealthPoll(ok) ==
    /\ pc = "health"
    /\ health' = IF ok THEN "ok" ELSE "not_ok"
    /\ IF ~ok
         THEN /\ lastOut' = <<"Vehicle is getting ready to arm...">>
              /\ pc' = "health"
         ELSE /\ pc' = "arm"
              /\ UNCHANGED lastOut
    /\ UNCHANGED <<argc, altSource, status, calls, err, subscribed,
                   lastAlt, posReads, inAir, targetAt>>

HealthWait == \E ok \in BOOLEAN : HealthPoll(ok)

\* lines 67-73
ArmMut ==
    /\ pc = "arm"
    /\ \E r \in ActionResults :
         /\ Call("arm", NoArg, r)
         /\ lastOut' = <<"Arming...">>
         /\ pc' = "takeoff"
         /\ UNCHANGED <<err, status>>
    /\ UNCHANGED <<argc, altSource, subscribed, health,
                   lastAlt, posReads, inAir, targetAt>>

Arm ==
    /\ pc = "arm"
    /\ \E r \in ActionResults :
         /\ Call("arm", NoArg, r)
         /\ lastOut' = <<"Arming...">>
         /\ IF r # "Success"
              THEN Fail("Arming failed")
              ELSE /\ pc' = "takeoff"
                   /\ UNCHANGED <<err, status>>
    /\ UNCHANGED <<argc, altSource, subscribed, health,
                   lastAlt, posReads, inAir, targetAt>>

\* lines 75-84; a failed takeoff that lands instead of returning is the
\* compensation the program does not do
TakeoffMut ==
    /\ pc = "takeoff"
    /\ \E r \in ActionResults :
         /\ Call("takeoff", NoArg, r)
         /\ IF r # "Success"
              THEN /\ err' = Append(err, "Takeoff failed")
                   /\ lastOut' = <<"Taking off...">>
                   /\ pc' = "land"
                   /\ UNCHANGED status
              ELSE /\ lastOut' = <<"Waiting until altitude > 1.0 m...">>
                   /\ pc' = "climb_wait"
                   /\ UNCHANGED <<err, status>>
    /\ UNCHANGED <<argc, altSource, subscribed, health,
                   lastAlt, posReads, inAir, targetAt>>

Takeoff ==
    /\ pc = "takeoff"
    /\ \E r \in ActionResults :
         /\ Call("takeoff", NoArg, r)
         /\ IF r # "Success"
              THEN /\ Fail("Takeoff failed")
                   /\ lastOut' = <<"Taking off...">>
              ELSE /\ lastOut' = <<"Waiting until altitude > 1.0 m...">>
                   /\ pc' = "climb_wait"
                   /\ UNCHANGED <<err, status>>
    /\ UNCHANGED <<argc, altSource, subscribed, health,
                   lastAlt, posReads, inAir, targetAt>>

\* lines 85-95: one iteration of the climb-to-threshold loop reading a
\* the threshold test written as >= instead of >
ClimbPollGeMut(a) ==
    /\ pc = "climb_wait"
    /\ a \in PositionReadings
    /\ ReadPosition(a)
    /\ IF a >= ClimbThreshold
         THEN /\ lastOut' = <<"Altitude above 1.0 m, start rotate + climb.">>
              /\ pc' = "set_stay"
         ELSE /\ lastOut' = <<"Current altitude", a>>
              /\ pc' = "climb_wait"
    /\ UNCHANGED <<argc, altSource, status, calls, err, subscribed,
                   health, inAir, targetAt>>

ClimbPoll(a) ==
    /\ pc = "climb_wait"
    /\ a \in PositionReadings
    /\ ReadPosition(a)
    /\ IF a > ClimbThreshold
         THEN /\ lastOut' = <<"Altitude above 1.0 m, start rotate + climb.">>
              /\ pc' = "set_stay"
         ELSE /\ lastOut' = <<"Current altitude", a>>
              /\ pc' = "climb_wait"
    /\ UNCHANGED <<argc, altSource, status, calls, err, subscribed,
                   health, inAir, targetAt>>

ClimbWait == \E a \in PositionReadings : ClimbPoll(a)

\* lines 97-111
SetStayMut ==
    /\ pc = "set_stay"
    /\ \E r \in OffboardResults :
         /\ Call("set_velocity_body", stay, r)
         /\ pc' = "offboard_start"
         /\ UNCHANGED <<err, status>>
    /\ UNCHANGED <<argc, altSource, lastOut, subscribed, health,
                   lastAlt, posReads, inAir, targetAt>>

SetStay ==
    /\ pc = "set_stay"
    /\ \E r \in OffboardResults :
         /\ Call("set_velocity_body", stay, r)
         /\ IF r # "Success"
              THEN Fail("Offboard set_velocity_body (stay) failed")
              ELSE /\ pc' = "offboard_start"
                   /\ UNCHANGED <<err, status>>
    /\ UNCHANGED <<argc, altSource, lastOut, subscribed, health,
                   lastAlt, posReads, inAir, targetAt>>

\* lines 113-118
OffboardStartMut ==
    /\ pc = "offboard_start"
    /\ \E r \in OffboardResults :
         /\ Call("offboard_start", NoArg, r)
         /\ lastOut' = <<"Starting Offboard...">>
         /\ IF r = "NoSetpointSet"
              THEN Fail("Offboard start failed")
              ELSE /\ pc' = "set_rotate_climb"
                   /\ UNCHANGED <<err, status>>
    /\ UNCHANGED <<argc, altSource, subscribed, health,
                   lastAlt, posReads, inAir, targetAt>>

OffboardStart ==
    /\ pc = "offboard_start"
    /\ \E r \in OffboardResults :
         /\ Call("offboard_start", NoArg, r)
         /\ lastOut' = <<"Starting Offboard...">>
         /\ IF r # "Success"
              THEN Fail("Offboard start failed")
              ELSE /\ pc' = "set_rotate_climb"
                   /\ UNCHANGED <<err, status>>
    /\ UNCHANGED <<argc, altSource, subscribed, health,
                   lastAlt, posReads, inAir, targetAt>>

\* lines 120-140
SetRotateClimb ==
    /\ pc = "set_rotate_climb"
    /\ \E r \in OffboardResults :
         /\ Call("set_velocity_body", rotate_climb, r)
         /\ IF r # "Success"
              THEN /\ Fail("Offboard set_velocity_body (rotate_climb) failed")
                   /\ UNCHANGED lastOut
              ELSE /\ lastOut' = <<"Rotating while climbing to", target_altitude>>
                   /\ pc' = "rotate_wait"
                   /\ UNCHANGED <<err, status>>
    /\ UNCHANGED <<argc, altSource, subscribed, health,
                   lastAlt, posReads, inAir, targetAt>>

\* lines 142-156: one iteration of the rotate+climb loop reading a
\* a loop that re-sends the rotate+climb setpoint on every iteration
RotatePollResendMut(a) ==
    /\ pc = "rotate_wait"
    /\ a \in PositionReadings
    /\ ReadPosition(a)
    /\ IF a >= target_altitude
         THEN /\ lastOut' = <<"Reached target altitude", target_altitude>>
              /\ targetAt' = Len(calls)
              /\ pc' = "set_hover"
              /\ UNCHANGED calls
         ELSE /\ lastOut' = <<"[Rotate+Climb] Alt", a>>
              /\ Call("set_velocity_body", rotate_climb, "Success")
              /\ pc' = "rotate_wait"
              /\ UNCHANGED targetAt
    /\ UNCHANGED <<argc, altSource, status, err, subscribed,
                   health, inAir>>

RotatePoll(a) ==
    /\ pc = "rotate_wait"
    /\ a \in PositionReadings
    /\ ReadPosition(a)
    /\ IF a >= target_altitude
         THEN /\ lastOut' = <<"Reached target altitude", target_altitude>>
              /\ targetAt' = Len(calls)
              /\ pc' = "set_hover"
         ELSE /\ lastOut' = <<"[Rotate+Climb] Alt", a>>
              /\ pc' = "rotate_wait"
              /\ UNCHANGED targetAt
    /\ UNCHANGED <<argc, altSource, status, calls, err, subscribed,
                   health, inAir>>

RotateClimbWait == \E a \in PositionReadings : RotatePoll(a)

\* lines 158-170
SetHoverMut ==
    /\ pc = "set_hover"
    /\ \E r \in OffboardResults :
         /\ Call("set_velocity_body", hover, r)
         /\ pc' = "hover"
         /\ UNCHANGED <<err, status>>
    /\ UNCHANGED <<argc, altSource, lastOut, subscribed, health,
                   lastAlt, posReads, inAir, targetAt>>

SetHoverSkipMut ==
    /\ pc = "set_hover"
    /\ \E r \in OffboardResults :
         /\ Call("set_velocity_body", hover, r)
         /\ IF r # "Success"
              THEN Fail("Offboard set_velocity_body (hover) failed")
              ELSE /\ pc' = "offboard_stop"
                   /\ UNCHANGED <<err, status>>
    /\ UNCHANGED <<argc, altSource, lastOut, subscribed, health,
                   lastAlt, posReads, inAir, targetAt>>

SetHover ==
    /\ pc = "set_hover"
    /\ \E r \in OffboardResults :
         /\ Call("set_velocity_body", hover, r)
         /\ IF r # "Success"
              THEN Fail("Offboard set_velocity_body (hover) failed")
              ELSE /\ pc' = "hover"
                   /\ UNCHANGED <<err, status>>
    /\ UNCHANGED <<argc, altSource, lastOut, subscribed, health,
                   lastAlt, posReads, inAir, targetAt>>

\* lines 172-174: sleep_for(seconds(5))
\* a hover that goes straight to landing, as in the variant without offboard
HoverMut ==
    /\ pc = "hover"
    /\ lastOut' = <<"Hovering for 5 seconds...">>
    /\ pc' = "land"
    /\ UNCHANGED <<argc, altSource, status, calls, err, subscribed,
                   health, lastAlt, posReads, inAir, targetAt>>

Hover ==
    /\ pc = "hover"
    /\ lastOut' = <<"Hovering for 5 seconds...">>
    /\ pc' = "offboard_stop"
    /\ UNCHANGED <<argc, altSource, status, calls, err, subscribed,
                   health, lastAlt, posReads, inAir, targetAt>>

\* lines 176-182
OffboardStopMut ==
    /\ pc = "offboard_stop"
    /\ \E r \in OffboardResults :
         /\ Call("offboard_stop", NoArg, r)
         /\ lastOut' = <<"Stopping Offboard...">>
         /\ IF r # "Success"
              THEN /\ err' = Append(err, "Offboard stop failed")
                   /\ pc' = "land"
                   /\ UNCHANGED status
              ELSE /\ pc' = "land"
                   /\ UNCHANGED <<err, status>>
    /\ UNCHANGED <<argc, altSource, subscribed, health,
                   lastAlt, posReads, inAir, targetAt>>

OffboardStopTimeoutMut ==
    /\ pc = "offboard_stop"
    /\ \E r \in OffboardResults :
         /\ Call("offboard_stop", NoArg, r)
         /\ lastOut' = <<"Stopping Offboard...">>
         /\ IF r = "NoSetpointSet"
              THEN Fail("Offboard stop failed")
              ELSE /\ pc' = "land"
                   /\ UNCHANGED <<err, status>>
    /\ UNCHANGED <<argc, altSource, subscribed, health,
                   lastAlt, posReads, inAir, targetAt>>

OffboardStop ==
    /\ pc = "offboard_stop"
    /\ \E r \in OffboardResults :
         /\ Call("offboard_stop", NoArg, r)
         /\ lastOut' = <<"Stopping Offboard...">>
         /\ IF r # "Success"
              THEN Fail("Offboard stop failed")
              ELSE /\ pc' = "land"
                   /\ UNCHANGED <<err, status>>
    /\ UNCHANGED <<argc, altSource, subscribed, health,
                   lastAlt, posReads, inAir, targetAt>>

\* lines 184-190
Land ==
    /\ pc = "land"
    /\ \E r \in ActionResults :
         /\ Call("land", NoArg, r)
         /\ lastOut' = <<"Landing...">>
         /\ IF r # "Success"
              THEN Fail("Land failed")
              ELSE /\ pc' = "land_wait"
                   /\ UNCHANGED <<err, status>>
    /\ UNCHANGED <<argc, altSource, subscribed, health,
                   lastAlt, posReads, inAir, targetAt>>

\* lines 192-198: one evaluation of the landing loop condition; on false
\* the loop ends and main returns 0
InAirPollMut(b) ==
    /\ pc = "land_wait"
    /\ inAir' = IF b THEN "true" ELSE "false"
    /\ IF b
         THEN /\ lastOut' = <<"Landed. Finished.">>
              /\ status' = 0
              /\ pc' = "exit"
         ELSE /\ lastOut' = <<"Vehicle is landing...">>
              /\ pc' = "land_wait"
              /\ UNCHANGED status
    /\ UNCHANGED <<argc, altSource, calls, err, subscribed, health,
                   lastAlt, posReads, targetAt>>

InAirPoll(b) ==
    /\ pc = "land_wait"
    /\ inAir' = IF b THEN "true" ELSE "false"
    /\ IF b
         THEN /\ lastOut' = <<"Vehicle is landing...">>
              /\ pc' = "land_wait"
              /\ UNCHANGED status
         ELSE /\ lastOut' = <<"Landed. Finished.">>
              /\ status' = 0
              /\ pc' = "exit"
    /\ UNCHANGED <<argc, altSource, calls, err, subscribed, health,
                   lastAlt, posReads, targetAt>>

LandWait == \E b \in BOOLEAN : InAirPoll(b)

----------------------------------------------------------------------------
\* lines 57-59: the position callback, invoked by the library's thread with
\* a received sample while the process runs
PositionCallbackMut ==
    /\ subscribed
    /\ pc # "exit"
    /\ \E a \in AltReadings :
         /\ lastOut' = <<"[Telem] Altitude (rel)", a>>
         /\ lastAlt' = a
    /\ UNCHANGED <<argc, altSource, pc, status, calls, err, subscribed,
                   health, posReads, inAir, targetAt>>

PositionCallback ==
    /\ subscribed
    /\ pc # "exit"
    /\ \E a \in AltReadings :
         lastOut' = <<"[Telem] Altitude (rel)", a>>
    /\ UNCHANGED seqVars

----------------------------------------------------------------------------
Main ==
    \/ CheckArgs
    \/ AddConnection
    \/ FirstAutopilot
    \/ SetRatePosition
    \/ SubscribePosition
    \/ HealthWait
    \/ Arm
    \/ Takeoff
    \/ ClimbWait
    \/ SetStay
    \/ OffboardStart
    \/ SetRotateClimb
    \/ RotateClimbWait
    \/ SetHover
    \/ Hover
    \/ OffboardStop
    \/ Land
    \/ LandWait

Next == Main \/ PositionCallback

Spec == Init /\ [][Next]_vars

\* The main thread keeps running, and the link behaves as a flight that
\* takes place: health becomes all-OK, the altitude passes 1.0 m and
\* reaches 5 m, and the vehicle touches down.
GoodReads ==
    \/ HealthPoll(TRUE)
    \/ \E a \in PositionReadings : a > ClimbThreshold /\ ClimbPoll(a)
    \/ \E a \in PositionReadings : a >= target_altitude /\ RotatePoll(a)
    \/ InAirPoll(FALSE)

LiveSpec == Spec /\ WF_vars(Main) /\ WF_vars(GoodReads)

----------------------------------------------------------------------------
\* Vocabulary of the properties

Commands == {"arm", "takeoff", "set_velocity_body", "offboard_start",
             "offboard_stop", "land"}

Ops(s) == [i \in 1..Len(s) |-> s[i].op]

Issued(op) == \E i \in 1..Len(calls) : calls[i].op = op

FailedOp(op) == \E i \in 1..Len(calls) :
                    calls[i].op = op /\ calls[i].res # "Success"

AnyFailed == \E i \in 1..Len(calls) : calls[i].res # "Success"

SetpointSent(sp) == \E i \in 1..Len(calls) :
                        calls[i].op = "set_velocity_body" /\ calls[i].arg = sp

Ok(op, arg) == [op |-> op, arg |-> arg, res |-> "Success"]

\* the calls of a run in which everything succeeded
FullCalls ==
    << Ok("add_any_connection", NoArg), Ok("first_autopilot", NoArg),
       Ok("set_rate_position", NoArg),
       Ok("arm", NoArg), Ok("takeoff", NoArg),
       Ok("set_velocity_body", <<0, 0, 0, 0>>),
       Ok("offboard_start", NoArg),
       Ok("set_velocity_body", <<0, 0, -5, 45>>),
       Ok("set_velocity_body", <<0, 0, 0, 0>>),
       Ok("offboard_stop", NoArg), Ok("land", NoArg) >>

TypeOK ==
    /\ argc \in 1..MaxArgc
    /\ altSource \in {"free", "ramp"}
    /\ status \in {NoStatus, 0, 1}
    /\ Len(calls) <= Len(FullCalls)
    /\ Len(err) <= 1
    /\ subscribed \in BOOLEAN
    /\ health \in {"unread", "ok", "not_ok"}
    /\ inAir \in {"unread", "true", "false"}
    /\ posReads \in 0..MaxPosReads
    /\ targetAt \in {-1} \cup (0..Len(FullCalls))

----------------------------------------------------------------------------
\* C1: once a command (arm, takeoff, set_velocity_body, offboard start,
\* offboard stop, land) has reported a non-success result, the process has
\* terminated with that command as the last call it ever made on the link:
\* no retry, no compensating command, no land after a later failure.
C1_NoCommandAfterFailure ==
    \A i \in 1..Len(calls) :
        (calls[i].op \in Commands /\ calls[i].res # "Success")
            => /\ i = Len(calls)
               /\ pc = "exit"
               /\ status = 1
               /\ (calls[i].op # "land" => ~Issued("land"))

\* a failure after takeoff succeeded
C1_Witness ==
    /\ Len(calls) >= 6
    /\ calls[5] = Ok("takeoff", NoArg)
    /\ calls[Len(calls)].res # "Success"
    /\ pc = "exit"

\* C2: exit status 0 only after arm, takeoff, the three setpoints, offboard
\* start, offboard stop and land all reported success and in_air was then
\* read false; a terminated run with any non-success result has status 1.
C2_ExitStatus ==
    pc = "exit" =>
        /\ status \in {0, 1}
        /\ status = 0 => (calls = FullCalls /\ inAir = "false")
        /\ AnyFailed => status = 1

C2_Witness == pc = "exit" /\ status = 0 /\ inAir = "false"

\* C3: if arm reported failure, the process has exited with status 1 and
\* takeoff was not called.
C3_ArmFailure ==
    FailedOp("arm") => (pc = "exit" /\ status = 1 /\ ~Issued("takeoff"))

C3_Witness == FailedOp("arm") /\ pc = "exit"

\* C4: if offboard start reported failure, the process has exited with
\* status 1 and the rotate+climb setpoint (down -0.5 m/s, yaw 45 deg/s) was
\* not sent.
C4_OffboardStartFailure ==
    FailedOp("offboard_start") =>
        (pc = "exit" /\ status = 1 /\ ~SetpointSent(<<0, 0, -5, 45>>))

C4_Witness == FailedOp("offboard_start") /\ pc = "exit"

\* C5: after the rotate+climb loop read an altitude >= 5 m, the calls made
\* from that reading on are at most one neutral setpoint, and offboard stop
\* is only ever called right after that one setpoint reported success.
C5_OneNeutralBeforeStop ==
    /\ targetAt >= 0 =>
           /\ lastAlt >= 50
           /\ Cardinality({j \in (targetAt + 1)..Len(calls) :
                  calls[j].op = "set_velocity_body"}) <= 1
    /\ \A i \in 1..Len(calls) :
           calls[i].op = "offboard_stop" =>
               /\ targetAt >= 0
               /\ i = targetAt + 2
               /\ calls[targetAt + 1] = Ok("set_velocity_body", <<0, 0, 0, 0>>)

C5_Witness == targetAt >= 0 /\ Issued("offboard_stop")

\* C6: started with an argument count other than one (argc # 2), the
\* process makes no call on the link and registers nothing, and when it has
\* run it has printed the usage and exited with status 1.
C6_BadArity ==
    argc # 2 =>
        /\ calls = <<>>
        /\ ~subscribed
        /\ pc \in {"start", "exit"}
        /\ pc = "exit" => (status = 1 /\ err = <<"Usage">>)

C6_Witness == argc > 2 /\ pc = "exit" /\ err = <<"Usage">>

\* C7: the landing loop is entered only after land reported success; in it,
\* a step that leaves in_air read as true stays in the loop, the read that
\* returns false leaves it with exit status 0, and no call is made.
C7_LandingLoop ==
    [][ /\ pc' = "land_wait" =>
              (Len(calls') > 0 /\ calls'[Len(calls')] = Ok("land", NoArg))
        /\ pc = "land_wait" =>
              /\ calls' = calls
              /\ inAir' = "true" => (pc' = "land_wait" /\ status' = NoStatus)
              /\ inAir' = "false" => (pc' = "exit" /\ status' = 0)
              /\ pc' = "exit" => inAir' = "false"
              /\ pc' \in {"land_wait", "exit"} ]_vars

C7_Witness == pc = "land_wait" /\ inAir = "true"

\* C8: with altitude readings 0, 0.3, 0.6, ... per position read, the
\* climb-to-threshold wait is still waiting after reads 1..4 (0 .. 0.9 m)
\* and leaves on read 5 (1.2 m).
C8_RampFivePolls ==
    altSource = "ramp" =>
        /\ pc = "climb_wait" =>
               /\ posReads <= 4
               /\ lastAlt = (IF posReads = 0 THEN -1 ELSE 3 * (posReads - 1))
               /\ lastAlt <= 10
        /\ pc = "set_stay" => (posReads = 5 /\ lastAlt = 12)

C8_Witness == altSource = "ramp" /\ pc = "set_stay" /\ posReads = 5

\* C9: under LiveSpec (main keeps running; health eventually reads OK, the
\* altitude eventually reads above 1.0 m and then at or above 5 m, in_air
\* eventually reads false) the process terminates, and if nothing failed it
\* does so with status 0 after arm, takeoff, rotate+climb, hover, land in
\* that order.
C9_Completes ==
    <>( /\ pc = "exit"
        /\ (argc = 2 /\ ~AnyFailed) =>
               (status = 0 /\ calls = FullCalls /\ targetAt = 8) )

C9_Witness ==
    /\ pc = "exit" /\ status = 0 /\ calls = FullCalls
    /\ health = "ok" /\ lastAlt >= 50 /\ targetAt = 8

\* C10: a step that writes a "[Telem]" line to std::cout changes nothing of
\* the sequencer: not its position, its calls, its readings or its status.
C10_CallbackInert ==
    [][ (lastOut' # lastOut /\ lastOut'[1] = "[Telem] Altitude (rel)")
            => UNCHANGED seqVars ]_vars

C10_Witness ==
    /\ Len(lastOut) > 0 /\ lastOut[1] = "[Telem] Altitude (rel)"
    /\ pc = "rotate_wait" /\ posReads > 0

----------------------------------------------------------------------------
\* the call made by this step, if it made one
NewCall(op) ==
    /\ Len(calls') = Len(calls) + 1
    /\ calls'[Len(calls')].op = op

NumIssued(op) == Cardinality({i \in 1..Len(calls) : calls[i].op = op})

\* C11: the first setpoint is the neutral one and is sent only with the last
\* altitude reading above 1.0 m; offboard start is called only right after
\* that single neutral setpoint reported success; a non-neutral setpoint is
\* sent only right after offboard start reported success.
C11_OffboardEntryOrder ==
    [][ /\ (NewCall("set_velocity_body") /\ ~Issued("set_velocity_body")) =>
              /\ calls'[Len(calls')].arg = <<0, 0, 0, 0>>
              /\ posReads >= 1
              /\ lastAlt > 10
        /\ NewCall("offboard_start") =>
              /\ Len(calls) > 0
              /\ calls[Len(calls)] = Ok("set_velocity_body", <<0, 0, 0, 0>>)
              /\ NumIssued("set_velocity_body") = 1
        /\ (NewCall("set_velocity_body")
               /\ calls'[Len(calls')].arg # <<0, 0, 0, 0>>) =>
              /\ Len(calls) > 0
              /\ calls[Len(calls)] = Ok("offboard_start", NoArg)
              /\ calls'[Len(calls')].arg = <<0, 0, -5, 45>> ]_vars

C11_Witness ==
    /\ SetpointSent(<<0, 0, -5, 45>>)
    /\ pc = "rotate_wait"

\* C12 as stated: when the hover sleep begins, offboard stop has been issued
\* and has succeeded.
C12_HoverAfterStop ==
    pc = "hover" =>
        \E i \in 1..Len(calls) : calls[i] = Ok("offboard_stop", NoArg)

\* C12 amended: the hover sleep takes place in offboard mode.  When it
\* begins the last call is the neutral hover setpoint, which succeeded,
\* offboard start has succeeded and offboard stop has not been issued;
\* offboard stop is reached only from the hover sleep.
C12_HoverBeforeStop ==
    [][ /\ pc = "hover" =>
              /\ calls[Len(calls)] = Ok("set_velocity_body", <<0, 0, 0, 0>>)
              /\ \E i \in 1..Len(calls) : calls[i] = Ok("offboard_start", NoArg)
              /\ ~Issued("offboard_stop")
        /\ (pc' = "offboard_stop" /\ pc # "offboard_stop") => pc = "hover"
        /\ NewCall("offboard_stop") => pc = "offboard_stop" ]_vars

C12_Witness ==
    /\ pc = "offboard_stop"
    /\ ~Issued("offboard_stop")
    /\ Len(lastOut) > 0 /\ lastOut[1] = "Hovering for 5 seconds..."

\* C13: land is called only right after offboard stop reported success, and
\* offboard stop is called only after offboard start reported success.
C13_LandAfterStopAfterStart ==
    \A i \in 1..Len(calls) :
        /\ calls[i].op = "land" =>
               /\ i > 1
               /\ calls[i - 1] = Ok("offboard_stop", NoArg)
        /\ calls[i].op = "offboard_stop" =>
               /\ \E j \in 1..(i - 1) : calls[j] = Ok("offboard_start", NoArg)
               /\ \A j \in 1..(i - 1) :
                      calls[j].op = "offboard_start" => calls[j].res = "Success"

C13_Witness == Issued("land") /\ Issued("offboard_start")

\* C14: arm is called only after health_all_ok() was read true; in the
\* health wait no call is made, nothing is written to std::cerr and no exit
\* status is set, a not-OK reading keeps the process in the wait, and the
\* wait is left only for arming, on an OK reading.
C14_HealthWait ==
    [][ /\ NewCall("arm") => (pc = "arm" /\ health = "ok")
        /\ pc = "health" =>
              /\ calls' = calls
              /\ err' = err
              /\ status' = NoStatus
              /\ health' = "not_ok" => pc' = "health"
              /\ pc' # "health" => (pc' = "arm" /\ health' = "ok") ]_vars

C14_Witness == pc = "health" /\ health = "not_ok"

\* C15: a read in the climb-to-threshold wait keeps waiting exactly when the
\* reading is <= 1.0 m and leaves exactly when it is > 1.0 m; a read in the
\* rotate+climb wait keeps waiting exactly when the reading is < 5.0 m and
\* leaves exactly when it is >= 5.0 m.
C15_AltitudeGates ==
    [][ /\ pc = "climb_wait" =>
              /\ lastOut'[1] = "Current altitude" =>
                     /\ pc' = "climb_wait"
                     /\ lastAlt' = lastOut'[2]
                     /\ lastAlt' <= 10
              /\ pc' # "climb_wait" => (pc' = "set_stay" /\ lastAlt' > 10)
        /\ pc = "rotate_wait" =>
              /\ lastOut'[1] = "[Rotate+Climb] Alt" =>
                     /\ pc' = "rotate_wait"
                     /\ lastAlt' = lastOut'[2]
                     /\ lastAlt' < 50
              /\ pc' # "rotate_wait" => (pc' = "set_hover" /\ lastAlt' >= 50) ]_vars

\* a reading of exactly 1.0 m that kept the climb wait waiting
C15_Witness ==
    /\ pc = "climb_wait"
    /\ lastAlt = 10
    /\ lastOut = <<"Current altitude", 10>>

\* the phase of section 4.1 that main() is in
Phase ==
    CASE pc \in {"start", "connect", "discover", "set_rate", "subscribe"} -> 1
      [] pc = "health" -> 2
      [] pc = "arm" -> 3
      [] pc = "takeoff" -> 4
      [] pc = "climb_wait" -> 5
      [] pc \in {"set_stay", "offboard_start", "set_rotate_climb",
                 "rotate_wait", "set_hover"} -> 6
      [] pc = "hover" -> 7
      [] pc = "offboard_stop" -> 8
      [] pc \in {"land", "land_wait"} -> 9
      [] pc = "exit" /\ status = 0 -> 10
      [] OTHER -> 11

\* C16: every step keeps the phase, moves it to the next phase of
\* Connecting(1), Health Wait(2), Arming(3), Takeoff(4), Climb-to-Threshold
\* Wait(5), Rotate+Climb(6), Hover(7), Offboard Stop(8), Landing(9), Done(10),
\* or ends in the failure exit(11).
C16_PhasesForward ==
    [][ \/ Phase' = Phase
        \/ (Phase < 10 /\ Phase' = Phase + 1)
        \/ (Phase < 10 /\ Phase' = 11 /\ status' = 1) ]_vars

C16_Witness == Phase = 10 /\ Len(calls) = Len(FullCalls)

IsSetpoint(c) == c.op = "set_velocity_body"

\* the arguments of the setpoints sent so far, in order
SetpointsSent ==
    LET sps == SelectSeq(calls, IsSetpoint)
    IN  [i \in 1..Len(sps) |-> sps[i].arg]

CommandsOnce ==
    /\ \A op \in {"arm", "takeoff", "offboard_start", "offboard_stop", "land"} :
           NumIssued(op) <= 1
    /\ Cardinality({i \in 1..Len(calls) :
           calls[i].op = "set_velocity_body"
           /\ calls[i].arg = <<0, 0, -5, 45>>}) <= 1
    /\ Len(SetpointsSent) <= 3
    /\ SetpointsSent =
           SubSeq(<< <<0, 0, 0, 0>>, <<0, 0, -5, 45>>, <<0, 0, 0, 0>> >>,
                  1, Len(SetpointsSent))

\* C17: a step taken in a polling loop (health, climb-to-threshold,
\* rotate+climb, in-air) makes no call; arm, takeoff, offboard start,
\* offboard stop, land and the rotate+climb setpoint are each issued at most
\* once, and the setpoints sent are a prefix of neutral, rotate+climb,
\* neutral.
C17_PollsIssueNothing ==
    [][ /\ pc \in {"health", "climb_wait", "rotate_wait", "land_wait"} =>
              calls' = calls
        /\ CommandsOnce' ]_vars

C17_Witness ==
    /\ pc = "rotate_wait"
    /\ lastOut = <<"[Rotate+Climb] Alt", 49>>
    /\ SetpointsSent = << <<0, 0, 0, 0>>, <<0, 0, -5, 45>> >>

StartupCalls == {"add_any_connection", "first_autopilot", "set_rate_position"}

\* C18: if add_any_connection, first_autopilot or set_rate_position did not
\* succeed, the process has exited with status 1, the callback is not
\* registered, health was never read and no command was issued; a command
\* is issued only after all three succeeded and the callback is registered.
C18_StartupGate ==
    /\ (\E op \in StartupCalls : FailedOp(op)) =>
           /\ pc = "exit"
           /\ status = 1
           /\ ~subscribed
           /\ health = "unread"
           /\ \A i \in 1..Len(calls) : calls[i].op \notin Commands
    /\ (\E i \in 1..Len(calls) : calls[i].op \in Commands) =>
           /\ SubSeq(calls, 1, 3) = SubSeq(FullCalls, 1, 3)
           /\ subscribed
           /\ health = "ok"

C18_Witness == FailedOp("set_rate_position") /\ pc = "exit"

====
